---- MODULE Spec2Model ----
(***************************************************************************)
(* Model of the gameroom daemon's application authorization handler       *)
(* (src/src/authorization_handler/mod.rs): the event applier               *)
(* process_admin_event over the four proposal tables, and the two loops    *)
(* started by run() (the client loop that drives one websocket session at  *)
(* a time, and the connection manager that writes close frames and         *)
(* requests reconnects), with the shutdown handle.                         *)
(***************************************************************************)
EXTENDS Integers, Sequences, FiniteSets, TLC

(***************************************************************************)
(* Bounds of the model.                                                    *)
(***************************************************************************)
\* Largest value SystemTime::now() returns.
MaxTime == 1
\* Number of process_admin_event calls in a run of SpecApply.
MaxCalls == 3
\* Number of disturbances in a run of Spec: frames that carry an event, frames
\* that find the invalid-message counter past the threshold, shutdown() calls.
MaxDisturbances == 3
\* Number of frames that carry an event, among the disturbances.
MaxFrameEvents == 1
MaxOtherWrites == 1

(***************************************************************************)
(* Program constants.                                                      *)
(***************************************************************************)
INVALID_MESSAGE_THRESHOLD == 10

(***************************************************************************)
(* Input sets.                                                             *)
(***************************************************************************)
Times == 0..MaxTime
CircuitIds == {"c1", "c2"}
\* circuit.members and circuit.roster of a proposal message
Circuits == {[members |-> <<"n1", "n2">>, roster |-> <<"s1">>]}
\* signer_public_key (bytes that are valid UTF-8 text, or bytes that are
\* not) and ballot.vote of a vote message
Ballots ==
    {[signer_public_key |-> "IwAAAQ", vote |-> "Accept"],
     [signer_public_key |-> "not_utf8", vote |-> "Reject"]}
\* The fallible call that fails while one event is applied ("none": no call
\* fails).  "pool_get" is the first pool.get() of the call, "pool_get_tx"
\* the one that precedes the writes of a branch that has looked a proposal up.
FailPoints(type) ==
    CASE type = "ProposalSubmitted" ->
            {"none", "pool_get", "insert_circuit_proposal", "insert_circuit_service",
             "insert_circuit_member", "commit"}
      [] type = "ProposalVote" ->
            {"none", "pool_get", "fetch", "pool_get_tx",
             "update_circuit_proposal_status", "insert_proposal_vote_record", "commit"}
      [] OTHER ->
            {"none", "pool_get", "fetch", "pool_get_tx", "update_circuit_proposal_status"}

NoRow == [id |-> 0, circuit_id |-> "-", status |-> "-", created_time |-> 0,
          updated_time |-> 0]

Ok == [kind |-> "Ok", arg |-> "-"]
Err(kind, arg) == [kind |-> kind, arg |-> arg]
\* AppAuthHandlerError::DatabaseError("Could not find open proposal for circuit: {}")
NoPendingProposal(circuit_id) == Err("NoPendingProposal", circuit_id)

MinOf(S) == CHOOSE x \in S : \A y \in S : x <= y

AdminEvent(type, circuit_id, members, roster, key, vote) ==
    [type |-> type, circuit_id |-> circuit_id, members |-> members,
     roster |-> roster, signer_public_key |-> key, vote |-> vote]

ProposalSubmittedEvents ==
    {AdminEvent("ProposalSubmitted", c, x.members, x.roster, "-", "-") :
        c \in CircuitIds, x \in Circuits}
ProposalVoteEvents ==
    {AdminEvent("ProposalVote", c, << >>, << >>, b.signer_public_key, b.vote) :
        c \in CircuitIds, b \in Ballots}
ProposalAcceptedEvents ==
    {AdminEvent("ProposalAccepted", c, << >>, << >>, "-", "-") : c \in CircuitIds}
ProposalRejectedEvents ==
    {AdminEvent("ProposalRejected", c, << >>, << >>, "-", "-") : c \in CircuitIds}
AdminServiceEvent ==
    ProposalSubmittedEvents \cup ProposalVoteEvents
        \cup ProposalAcceptedEvents \cup ProposalRejectedEvents

(***************************************************************************)
(* The proposal store: four tables, each a sequence of rows in insertion   *)
(* order.                                                                  *)
(***************************************************************************)
EmptyDb ==
    [circuit_proposal |-> << >>, proposal_circuit_service |-> << >>,
     proposal_circuit_member |-> << >>, proposal_vote_record |-> << >>]

insert_circuit_proposal(d, proposal) ==
    [d EXCEPT !.circuit_proposal = Append(@, proposal)]

insert_circuit_service(d, services) ==
    [d EXCEPT !.proposal_circuit_service = @ \o services]

insert_circuit_member(d, members) ==
    [d EXCEPT !.proposal_circuit_member = @ \o members]

insert_proposal_vote_record(d, votes) ==
    [d EXCEPT !.proposal_vote_record = @ \o votes]

update_circuit_proposal_status(d, proposal_id, time, status) ==
    [d EXCEPT !.circuit_proposal =
        [i \in 1..Len(@) |->
            IF @[i].id = proposal_id
            THEN [@[i] EXCEPT !.updated_time = time, !.status = status]
            ELSE @[i]]]

\* The rows a query for (circuit_id, status) matches, in table order.
MatchingRows(d, circuit_id, status) ==
    SelectSeq(d.circuit_proposal,
              LAMBDA p : p.circuit_id = circuit_id /\ p.status = status)

\* Which of the matching rows a LIMIT 1 query without ORDER BY may return.
Picks(d, admin_event) ==
    LET n == Len(MatchingRows(d, admin_event.circuit_id, "Pending"))
    IN IF admin_event.type = "ProposalSubmitted" \/ n = 0 THEN {1} ELSE 1..n

\* Option<CircuitProposal>: one matching row (which one is the database's
\* choice, given by pick), or NoRow.
fetch_circuit_proposal_with_status(d, circuit_id, status, pick) ==
    LET rows == MatchingRows(d, circuit_id, status)
    IN IF rows = << >> THEN NoRow
       ELSE rows[pick]

\* conn.transaction(|| ...): the statements run in order; the first failing
\* one, or a failing commit, rolls every statement of the closure back.
transaction(before, steps, commit_fails) ==
    LET failing == {i \in 1..Len(steps) : steps[i].failed}
        executed == IF failing = {} THEN Len(steps) ELSE MinOf(failing)
        log == [i \in 1..executed |-> steps[i].name]
    IN IF failing # {}
       THEN [db |-> before, result |-> Err("DatabaseError", steps[executed].name),
             log |-> log]
       ELSE IF commit_fails
       THEN [db |-> before, result |-> Err("DatabaseError", "commit"), log |-> log]
       ELSE [db |-> steps[Len(steps)].db, result |-> Ok, log |-> log]

Step(d, name, fail) == [db |-> d, name |-> name, failed |-> fail = name]

(***************************************************************************)
(* The event applier.                                                      *)
(***************************************************************************)
parse_proposal(proposal, id, timestamp) ==
    [id |-> id, circuit_id |-> proposal.circuit_id, status |-> "Pending",
     created_time |-> timestamp, updated_time |-> timestamp]

parse_splinter_services(proposal_id, splinter_services) ==
    [i \in 1..Len(splinter_services) |->
        [proposal_id |-> proposal_id, service_id |-> splinter_services[i]]]

parse_splinter_nodes(proposal_id, splinter_nodes) ==
    [i \in 1..Len(splinter_nodes) |->
        [proposal_id |-> proposal_id, node_id |-> splinter_nodes[i]]]

\* Mutant: the lookup forgets the status filter and returns a proposal of the
\* circuit whatever its status.
get_proposal_with_circuit_id_any_status(d, circuit_id, pick, fail) ==
    LET rows == SelectSeq(d.circuit_proposal, LAMBDA p : p.circuit_id = circuit_id)
    IN IF fail = "pool_get" THEN [result |-> Err("PoolError", "-"), proposal |-> NoRow]
       ELSE IF fail = "fetch"
       THEN [result |-> Err("DatabaseError", "fetch"), proposal |-> NoRow]
       ELSE IF rows = << >>
       THEN [result |-> NoPendingProposal(circuit_id), proposal |-> NoRow]
       ELSE [result |-> Ok, proposal |-> rows[1]]

get_pending_proposal_with_circuit_id(d, circuit_id, pick, fail) ==
    LET found == fetch_circuit_proposal_with_status(d, circuit_id, "Pending", pick)
    IN IF fail = "pool_get" THEN [result |-> Err("PoolError", "-"), proposal |-> NoRow]
       ELSE IF fail = "fetch"
       THEN [result |-> Err("DatabaseError", "fetch"), proposal |-> NoRow]
       ELSE IF found = NoRow
       THEN [result |-> NoPendingProposal(circuit_id), proposal |-> NoRow]
       ELSE [result |-> Ok, proposal |-> found]

\* Mutant: the three inserts run outside conn.transaction, so the rows written
\* before a failing insert stay.
proposal_submitted_without_transaction(d, msg_proposal, time, proposal_id, fail) ==
    LET proposal == parse_proposal(msg_proposal, proposal_id, time)
        services == parse_splinter_services(proposal_id, msg_proposal.roster)
        nodes == parse_splinter_nodes(proposal_id, msg_proposal.members)
        d1 == insert_circuit_proposal(d, proposal)
        d2 == insert_circuit_service(d1, services)
        d3 == insert_circuit_member(d2, nodes)
    IN CASE fail = "pool_get" \/ fail = "insert_circuit_proposal" ->
                [db |-> d, result |-> Err("DatabaseError", fail), log |-> << >>]
         [] fail = "insert_circuit_service" ->
                [db |-> d1, result |-> Err("DatabaseError", fail), log |-> << >>]
         [] fail = "insert_circuit_member" ->
                [db |-> d2, result |-> Err("DatabaseError", fail), log |-> << >>]
         [] OTHER -> [db |-> d3, result |-> Ok, log |-> << >>]

\* A submission that inserts the member rows before the service rows.
proposal_submitted_members_first(d, msg_proposal, time, proposal_id, fail) ==
    LET proposal == parse_proposal(msg_proposal, proposal_id, time)
        services == parse_splinter_services(proposal_id, msg_proposal.roster)
        nodes == parse_splinter_nodes(proposal_id, msg_proposal.members)
        d1 == insert_circuit_proposal(d, proposal)
        d2 == insert_circuit_member(d1, nodes)
        d3 == insert_circuit_service(d2, services)
    IN IF fail = "pool_get"
       THEN [db |-> d, result |-> Err("PoolError", "-"), log |-> << >>]
       ELSE transaction(d,
                <<Step(d1, "insert_circuit_proposal", fail),
                  Step(d2, "insert_circuit_member", fail),
                  Step(d3, "insert_circuit_service", fail)>>,
                fail = "commit")

\* AdminServiceEvent::ProposalSubmitted
proposal_submitted(d, msg_proposal, time, proposal_id, fail) ==
    LET proposal == parse_proposal(msg_proposal, proposal_id, time)
        services == parse_splinter_services(proposal_id, msg_proposal.roster)
        nodes == parse_splinter_nodes(proposal_id, msg_proposal.members)
        d1 == insert_circuit_proposal(d, proposal)
        d2 == insert_circuit_service(d1, services)
        d3 == insert_circuit_member(d2, nodes)
    IN IF fail = "pool_get"
       THEN [db |-> d, result |-> Err("PoolError", "-"), log |-> << >>]
       ELSE transaction(d,
                <<Step(d1, "insert_circuit_proposal", fail),
                  Step(d2, "insert_circuit_service", fail),
                  Step(d3, "insert_circuit_member", fail)>>,
                fail = "commit")

\* Mutant: the vote record is stamped by a second reading of the clock, taken
\* after the one that refreshes the proposal.
proposal_vote_second_clock_reading(d, msg_vote, time, pick, fail) ==
    LET lookup == get_pending_proposal_with_circuit_id(d, msg_vote.circuit_id, pick, fail)
        proposal == lookup.proposal
        vote == [proposal_id |-> proposal.id,
                 voter_public_key |-> msg_vote.signer_public_key,
                 vote |-> msg_vote.vote, created_time |-> time + 1]
        d1 == update_circuit_proposal_status(d, proposal.id, time, "Pending")
        d2 == insert_proposal_vote_record(d1, <<vote>>)
    IN IF lookup.result # Ok \/ msg_vote.signer_public_key = "not_utf8"
            \/ fail # "none"
       THEN [db |-> d, result |-> Err("DatabaseError", fail), log |-> << >>]
       ELSE [db |-> d2, result |-> Ok, log |-> << >>]

\* A vote whose two statements run outside conn.transaction, so a refreshed
\* proposal stays when the insert of the vote record fails.
proposal_vote_without_transaction(d, msg_vote, time, pick, fail) ==
    LET lookup == get_pending_proposal_with_circuit_id(d, msg_vote.circuit_id, pick, fail)
        proposal == lookup.proposal
        vote == [proposal_id |-> proposal.id,
                 voter_public_key |-> msg_vote.signer_public_key,
                 vote |-> msg_vote.vote, created_time |-> time]
        d1 == update_circuit_proposal_status(d, proposal.id, time, "Pending")
        d2 == insert_proposal_vote_record(d1, <<vote>>)
    IN IF lookup.result # Ok
       THEN [db |-> d, result |-> lookup.result, log |-> << >>]
       ELSE IF msg_vote.signer_public_key = "not_utf8"
       THEN [db |-> d, result |-> Err("FromUtf8Error", "-"), log |-> << >>]
       ELSE IF fail = "pool_get_tx"
       THEN [db |-> d, result |-> Err("PoolError", "-"), log |-> << >>]
       ELSE IF fail = "update_circuit_proposal_status"
       THEN [db |-> d, result |-> Err("DatabaseError", fail),
             log |-> <<"update_circuit_proposal_status">>]
       ELSE IF fail = "insert_proposal_vote_record"
       THEN [db |-> d1, result |-> Err("DatabaseError", fail),
             log |-> <<"update_circuit_proposal_status", "insert_proposal_vote_record">>]
       ELSE [db |-> d2, result |-> Ok,
             log |-> <<"update_circuit_proposal_status", "insert_proposal_vote_record">>]

\* AdminServiceEvent::ProposalVote, from the proposal the lookup returned on.
proposal_vote_writes(d, proposal, msg_vote, time, fail) ==
    LET vote == [proposal_id |-> proposal.id,
                 voter_public_key |-> msg_vote.signer_public_key,
                 vote |-> msg_vote.vote, created_time |-> time]
        d1 == update_circuit_proposal_status(d, proposal.id, time, "Pending")
        d2 == insert_proposal_vote_record(d1, <<vote>>)
    IN IF msg_vote.signer_public_key = "not_utf8"
       THEN [db |-> d, result |-> Err("FromUtf8Error", "-"), log |-> << >>]
       ELSE IF fail = "pool_get_tx"
       THEN [db |-> d, result |-> Err("PoolError", "-"), log |-> << >>]
       ELSE transaction(d,
                <<Step(d1, "update_circuit_proposal_status", fail),
                  Step(d2, "insert_proposal_vote_record", fail)>>,
                fail = "commit")

\* AdminServiceEvent::ProposalVote
proposal_vote(d, msg_vote, time, pick, fail) ==
    LET lookup == get_pending_proposal_with_circuit_id(d, msg_vote.circuit_id, pick, fail)
    IN IF lookup.result # Ok
       THEN [db |-> d, result |-> lookup.result, log |-> << >>]
       ELSE proposal_vote_writes(d, lookup.proposal, msg_vote, time, fail)

\* The update of AdminServiceEvent::ProposalAccepted / ProposalRejected, from
\* the proposal the lookup returned on: one statement on a pooled connection,
\* outside any transaction.
proposal_resolved_writes(d, proposal, time, fail, status) ==
    IF fail = "pool_get_tx"
    THEN [db |-> d, result |-> Err("PoolError", "-"), log |-> << >>]
    ELSE IF fail = "update_circuit_proposal_status"
    THEN [db |-> d, result |-> Err("DatabaseError", fail),
          log |-> <<"update_circuit_proposal_status">>]
    ELSE [db |-> update_circuit_proposal_status(d, proposal.id, time, status),
          result |-> Ok, log |-> <<"update_circuit_proposal_status">>]

proposal_resolved(d, msg_proposal, time, pick, fail, status) ==
    LET lookup ==
            get_pending_proposal_with_circuit_id(d, msg_proposal.circuit_id, pick, fail)
    IN IF lookup.result # Ok
       THEN [db |-> d, result |-> lookup.result, log |-> << >>]
       ELSE proposal_resolved_writes(d, lookup.proposal, time, fail, status)

\* AdminServiceEvent::ProposalAccepted
proposal_accepted(d, msg_proposal, time, pick, fail) ==
    proposal_resolved(d, msg_proposal, time, pick, fail, "Accepted")

\* AdminServiceEvent::ProposalRejected
proposal_rejected(d, msg_proposal, time, pick, fail) ==
    proposal_resolved(d, msg_proposal, time, pick, fail, "Rejected")

process_admin_event(d, admin_event, time, proposal_id, pick, fail) ==
    CASE admin_event.type = "ProposalSubmitted" ->
            proposal_submitted(d, admin_event, time, proposal_id, fail)
      [] admin_event.type = "ProposalVote" ->
            proposal_vote(d, admin_event, time, pick, fail)
      [] admin_event.type = "ProposalAccepted" ->
            proposal_accepted(d, admin_event, time, pick, fail)
      [] admin_event.type = "ProposalRejected" ->
            proposal_rejected(d, admin_event, time, pick, fail)

(***************************************************************************)
(* Websocket frames and close messages.                                    *)
(***************************************************************************)
NoCall ==
    [admin_event |-> AdminEvent("-", "-", << >>, << >>, "-", "-"), result |-> Ok,
     log |-> << >>]

\* The events the frames of a session carry.
FrameEvents == {e \in AdminServiceEvent : e.circuit_id = "c1"}

\* The bytes of a text frame: none (Frame::Text(None)), an empty buffer,
\* bytes that are no JSON admin event, or the JSON encoding of an event.
Payloads ==
    {[bytes |-> b, event |-> NoCall.admin_event] : b \in {"none", "empty", "garbage"}}
        \cup {[bytes |-> "json", event |-> e] : e \in FrameEvents}

\* Frame::Text, Frame::Ping, Frame::Close, and the kinds the read loop does
\* not expect (Frame::Binary, Frame::Pong, ...).
Frames ==
    {[kind |-> "Text", payload |-> p] : p \in Payloads}
        \cup {[kind |-> k, payload |-> [bytes |-> "none", event |-> NoCall.admin_event]] :
                k \in {"Ping", "Close", "Binary"}}

\* Message::Close(Some(CloseReason {code, ..})); session is the session whose
\* invalid frames caused it, 0 for the message of shutdown().
CloseMessage(code, session) == [code |-> code, session |-> session]

parse_message_bytes(payload) ==
    IF payload.bytes \in {"none", "empty"}
    THEN [result |-> Err("InvalidMessageError", "empty"), event |-> NoCall.admin_event]
    ELSE IF payload.bytes = "garbage"
    THEN [result |-> Err("InvalidMessageError", "serde_json"),
          event |-> NoCall.admin_event]
    ELSE [result |-> Ok, event |-> payload.event]

(***************************************************************************)
(* State.                                                                  *)
(***************************************************************************)
VARIABLES
    vote_call,   \* the last submit_vote call: its inputs and its result
    applier,     \* a process_admin_event call between its lookup and its writes
    n_writes,    \* number of writes to the store by other writers so far
    db,          \* the proposal store
    uuids,       \* number of Uuid::new_v4() identifiers generated so far
    n_calls,     \* number of process_admin_event calls so far
    last_call,   \* the last call: its event, result and statements
    running,     \* shutdown_signaler / running
    reconnect,   \* the reconnect flag
    rx_future,   \* channel of request futures (sessions to drive), by number
    rx_closing,  \* channel of sinks, by session number
    rx_msg_closing,  \* channel of close messages
    n_futures,   \* number of prepare_request calls so far
    client_pc,   \* position of the client thread
    client_session,  \* the session the client thread drives
    client_result,   \* result of the client thread's loop
    client_error,    \* the error of that result (Ok: none)
    session_open,    \* a request future has begun a session that has not ended
    invalid_message_count,
    n_excess,    \* number of handle_invalid_messages calls so far
    exceeded_at, \* -1, or n_futures when the session first passed the threshold
    remote_close,    \* a session has received a close frame
    invalid_run, \* invalid frames received since the last valid frame or the
                 \* start of the session
    sinks_sent,  \* per session, the number of tx_closing.send(sink) calls made
    conn_pc,     \* position of the connection manager thread
    conn_sink,   \* the sink it holds (0: none)
    conn_msg,    \* the close message it holds
    conn_result, \* result of the connection manager's loop
    conn_error,  \* the error of that result (Ok: none)
    sink_frames, \* the frames written to each session's sink
    shutdown_pc, \* position of a shutdown() call in progress
    shutdown_calls,  \* number of shutdown() calls so far
    shutdown_result, \* result of the last shutdown() call
    shutdown_seen    \* the sink the connection manager held, waiting for a close
                     \* message, when shutdown() was last invoked (0: none)

store_vars == <<db, uuids, n_calls, last_call>>
flag_vars == <<running, reconnect>>
channel_vars == <<rx_future, rx_closing, rx_msg_closing, n_futures>>
session_vars ==
    <<invalid_message_count, n_excess, exceeded_at, remote_close, invalid_run, sinks_sent>>
client_vars ==
    <<client_pc, client_session, client_result, client_error, session_open, session_vars>>
conn_vars == <<conn_pc, conn_sink, conn_msg, conn_result, conn_error, sink_frames>>
shutdown_vars == <<shutdown_pc, shutdown_calls, shutdown_result, shutdown_seen>>
vote_vars == <<vote_call>>
writer_vars == <<applier, n_writes>>
vars ==
    <<store_vars, flag_vars, channel_vars, client_vars, conn_vars, shutdown_vars, vote_vars,
      writer_vars>>

\* No process_admin_event call is between its lookup and its writes.
NoLookup ==
    [pc |-> "idle", admin_event |-> NoCall.admin_event, proposal |-> NoRow,
     in_transaction |-> FALSE]

\* No submit_vote call has been made.
NoVoteCall ==
    [url |-> "-", vote |-> [circuit_id |-> "-", vote |-> "-"], runtime_new |-> TRUE,
     response |-> [received |-> FALSE, status |-> 0, body |-> "-"], result |-> Ok]

NoMessage == CloseMessage("-", 0)

\* Every session but the first follows a close message of handle_invalid_messages.
MaxSessions == MaxDisturbances + 1

\* The disturbances so far.
Disturbances == n_calls + n_excess + shutdown_calls

InitStore ==
    /\ db = EmptyDb
    /\ uuids = 0
    /\ n_calls = 0
    /\ last_call = NoCall

\* The state run() returns in: both threads spawned, the initial request
\* future sent.
Init ==
    /\ InitStore
    /\ vote_call = NoVoteCall
    /\ applier = NoLookup
    /\ n_writes = 0
    /\ running = TRUE
    /\ reconnect = FALSE
    /\ rx_future = <<1>>
    /\ rx_closing = << >>
    /\ rx_msg_closing = << >>
    /\ n_futures = 1
    /\ client_pc = "try_recv"
    /\ client_session = 0
    /\ client_result = "-"
    /\ client_error = Ok
    /\ session_open = FALSE
    /\ invalid_message_count = 0
    /\ n_excess = 0
    /\ exceeded_at = -1
    /\ remote_close = FALSE
    /\ invalid_run = 0
    /\ sinks_sent = [s \in 1..MaxSessions |-> 0]
    /\ conn_pc = "sink_try_recv"
    /\ conn_sink = 0
    /\ conn_msg = NoMessage
    /\ conn_result = "-"
    /\ conn_error = Ok
    /\ sink_frames = [s \in 1..MaxSessions |-> << >>]
    /\ shutdown_pc = "idle"
    /\ shutdown_calls = 0
    /\ shutdown_result = "-"
    /\ shutdown_seen = 0

(***************************************************************************)
(* The event applier, called directly (as the unit tests do).              *)
(***************************************************************************)
\* A call that returns before its writes have reached the store.
Apply_unfinished(admin_event, time, pick, fail) ==
    LET proposal_id == uuids + 1
        out == process_admin_event(db, admin_event, time, proposal_id, pick, fail)
    IN /\ db' = db
       /\ uuids' = IF admin_event.type = "ProposalSubmitted" THEN uuids + 1 ELSE uuids
       /\ n_calls' = n_calls + 1
       /\ last_call' =
            [admin_event |-> admin_event, result |-> out.result, log |-> out.log]

\* One call of process_admin_event(admin_event, &pool).
Apply(admin_event, time, pick, fail) ==
    LET proposal_id == uuids + 1
        out == process_admin_event(db, admin_event, time, proposal_id, pick, fail)
    IN /\ db' = out.db
       /\ uuids' = IF admin_event.type = "ProposalSubmitted" THEN uuids + 1 ELSE uuids
       /\ n_calls' = n_calls + 1
       /\ last_call' =
            [admin_event |-> admin_event, result |-> out.result, log |-> out.log]

ApplyEvent ==
    /\ n_calls < MaxCalls
    /\ \E admin_event \in AdminServiceEvent, time \in Times :
        \E pick \in Picks(db, admin_event), fail \in FailPoints(admin_event.type) :
            Apply(admin_event, time, pick, fail)
    /\ UNCHANGED <<vote_vars, writer_vars, flag_vars, channel_vars, client_vars,
                   conn_vars, shutdown_vars>>

NextApply == ApplyEvent

SpecApply == Init /\ [][NextApply]_vars

(***************************************************************************)
(* try_recv: the flag is read, the thread sleeps a second, the channel is  *)
(* polled.  The receiver is disconnected once every sender is dropped.     *)
(***************************************************************************)
\* A try_recv whose test of the flag lacks the negation.
try_recv_check_negated(is_running) == IF is_running THEN "none" ELSE "poll"

\* "none": the flag was false; "poll": go on to receiver.try_recv()
try_recv_check(is_running) == IF is_running THEN "poll" ELSE "none"

\* receiver.try_recv(): "some", "empty" or "disconnected"
try_recv_poll(queue, senders_dropped) ==
    IF queue # << >> THEN "some"
    ELSE IF senders_dropped THEN "disconnected"
    ELSE "empty"

\* The threads own the receiving ends and tx_future: a thread that has
\* returned has dropped them.
ClientDone == client_pc = "done"
ConnDone == conn_pc = "done"

(***************************************************************************)
(* The client thread: receives request futures and drives them.            *)
(***************************************************************************)
ClientBreak(result, error) ==
    /\ client_pc' = "exit"
    /\ client_result' = result
    /\ client_error' = error
    /\ session_open' = FALSE

\* try_recv(&rx_future, running): the read of the flag
ClientTryRecv ==
    /\ client_pc = "try_recv"
    /\ IF try_recv_check(running) = "none"
       THEN ClientBreak("Ok", Ok)
       ELSE client_pc' = "poll" /\ UNCHANGED <<client_result, client_error, session_open>>
    /\ UNCHANGED <<vote_vars, writer_vars, store_vars, flag_vars, channel_vars,
                   client_session, session_vars, conn_vars, shutdown_vars>>

\* try_recv(&rx_future, running): the poll after the sleep
ClientPoll ==
    /\ client_pc = "poll"
    /\ LET got == try_recv_poll(rx_future, ConnDone)
       IN CASE got = "some" ->
                /\ client_session' = Head(rx_future)
                /\ rx_future' = Tail(rx_future)
                /\ client_pc' = "block_on"
                /\ UNCHANGED <<client_result, client_error, session_open>>
            [] got = "empty" ->
                /\ client_pc' = "try_recv"
                /\ UNCHANGED <<client_session, rx_future, client_result, client_error,
                             session_open>>
            [] got = "disconnected" ->
                /\ ClientBreak("Err", Err("ShutdownError", "try_recv"))
                /\ UNCHANGED <<client_session, rx_future>>
    /\ UNCHANGED <<vote_vars, writer_vars, store_vars, flag_vars, rx_closing,
                   rx_msg_closing, n_futures, session_vars, conn_vars, shutdown_vars>>

\* Runtime::new() and the start of the request future: the upgrade request
\* and, once upgraded, the hand-over of the sink.
ConnectOutcomes == {"runtime_error", "request_error", "not_upgraded", "upgraded"}

\* The error block_on returns: of Runtime::new(), of the request or the
\* upgrade (map_err at lines 342-345), or of tx_closing.send(sink).
connect_error(outcome) ==
    CASE outcome = "runtime_error" -> Err("IoError", "Runtime::new")
      [] outcome = "request_error" -> Err("ClientError", "request")
      [] outcome = "not_upgraded" -> Err("ClientError", "on_upgrade")
      [] OTHER -> Err("StartUpError", "tx_closing.send")

\* An upgrade that resolves whatever status the server answered with.
on_upgrade_any_status(outcome) == outcome \in {"upgraded", "not_upgraded"}

\* res.into_body().on_upgrade(): it resolves only when the server answered
\* 101 Switching Protocols; any other answer is logged and has no upgrade.
on_upgrade(outcome) == outcome = "upgraded"

ClientConnect(outcome) ==
    /\ client_pc = "block_on"
    /\ IF on_upgrade(outcome) /\ ~ConnDone
       THEN /\ rx_closing' = Append(rx_closing, client_session)
            /\ invalid_message_count' = 0
            /\ invalid_run' = 0
            /\ sinks_sent' = [sinks_sent EXCEPT ![client_session] = @ + 1]
            /\ exceeded_at' = -1
            /\ client_pc' = "read"
            /\ session_open' = TRUE
            /\ UNCHANGED <<client_result, client_error, n_excess, remote_close>>
       ELSE /\ ClientBreak("Err", connect_error(outcome))
            /\ UNCHANGED <<rx_closing, session_vars>>
    /\ UNCHANGED <<vote_vars, writer_vars, store_vars, flag_vars, rx_future,
                   rx_msg_closing, n_futures, client_session, conn_vars,
                   shutdown_vars>>

\* The value of the take_while predicate of a frame that was handled.
keep_reading(is_running) == is_running

\* A session that hands control back to the loop of the client thread while
\* a request future waits, as a future spawned on the runtime would.
AfterFrame_yielding(keep) ==
    /\ client_pc' = IF ~keep THEN "after_block_on"
                    ELSE IF rx_future # << >> THEN "poll" ELSE "read"
    /\ session_open' = keep
    /\ UNCHANGED <<client_result, client_error>>

\* The session after a frame whose predicate is Ok(keep): the next frame, or
\* the end of the stream (block_on returns Ok).
AfterFrame(keep) ==
    /\ client_pc' = IF keep THEN "read" ELSE "after_block_on"
    /\ session_open' = keep
    /\ UNCHANGED <<client_result, client_error>>

\* A text frame that decodes: the event is applied.
FrameEvent(admin_event) ==
    /\ Disturbances < MaxDisturbances
    /\ \E time \in Times, pick \in Picks(db, admin_event),
          fail \in FailPoints(admin_event.type) :
        /\ Apply(admin_event, time, pick, fail)
        /\ invalid_message_count' = 0
        /\ IF last_call'.result # Ok
           THEN ClientBreak("Err", last_call'.result)
           ELSE AfterFrame(keep_reading(running))
    /\ UNCHANGED <<vote_vars, writer_vars, flag_vars, channel_vars, client_session,
                   n_excess, exceeded_at, remote_close>>

\* A read loop that disconnects when the counter reaches the threshold.
FrameInvalid_at_threshold ==
    /\ invalid_message_count' = invalid_message_count + 1
    /\ IF invalid_message_count' >= INVALID_MESSAGE_THRESHOLD
       THEN /\ Disturbances < MaxDisturbances
            /\ n_excess' = n_excess + 1
            /\ reconnect' = TRUE
            /\ exceeded_at' = IF exceeded_at = -1 THEN n_futures ELSE exceeded_at
            /\ client_pc' = "handle_invalid_messages"
            /\ UNCHANGED <<client_result, client_error, session_open>>
       ELSE /\ AfterFrame(keep_reading(running))
            /\ UNCHANGED <<reconnect, n_excess, exceeded_at>>
    /\ UNCHANGED <<vote_vars, writer_vars, store_vars, running, channel_vars,
                   client_session, remote_close>>

\* An invalid frame: counted, and past the threshold handle_invalid_messages,
\* here up to its store of the reconnect flag.
FrameInvalid ==
    /\ invalid_message_count' = invalid_message_count + 1
    /\ IF invalid_message_count' > INVALID_MESSAGE_THRESHOLD
       THEN /\ Disturbances < MaxDisturbances
            /\ n_excess' = n_excess + 1
            /\ reconnect' = TRUE
            /\ exceeded_at' = IF exceeded_at = -1 THEN n_futures ELSE exceeded_at
            /\ client_pc' = "handle_invalid_messages"
            /\ UNCHANGED <<client_result, client_error, session_open>>
       ELSE /\ AfterFrame(keep_reading(running))
            /\ UNCHANGED <<reconnect, n_excess, exceeded_at>>
    /\ UNCHANGED <<vote_vars, writer_vars, store_vars, running, channel_vars,
                   client_session, remote_close>>

\* A read loop whose Ping arm leaves the counter alone.
FramePing_keeps_count ==
    /\ UNCHANGED invalid_message_count
    /\ AfterFrame(keep_reading(running))
    /\ UNCHANGED <<vote_vars, writer_vars, store_vars, flag_vars, channel_vars,
                   client_session, n_excess, exceeded_at, remote_close>>

FramePing ==
    /\ invalid_message_count' = 0
    /\ AfterFrame(keep_reading(running))
    /\ UNCHANGED <<vote_vars, writer_vars, store_vars, flag_vars, channel_vars,
                   client_session, n_excess, exceeded_at, remote_close>>

FrameClose ==
    /\ invalid_message_count' = 0
    /\ running' = FALSE
    /\ remote_close' = TRUE
    /\ AfterFrame(keep_reading(running'))
    /\ UNCHANGED <<vote_vars, writer_vars, store_vars, reconnect, channel_vars,
                   client_session, n_excess, exceeded_at>>

\* The frames the read loop counts as invalid: text that does not decode,
\* and the kinds it does not expect.
InvalidFrames ==
    {frame \in Frames :
        \/ frame.kind = "Text" /\ parse_message_bytes(frame.payload).result # Ok
        \/ frame.kind \notin {"Text", "Ping", "Close"}}

\* One frame of the stream, handled by the take_while closure.
SessionFrame(frame) ==
    /\ client_pc = "read"
    /\ invalid_run' = IF frame \in InvalidFrames THEN invalid_run + 1 ELSE 0
    /\ UNCHANGED sinks_sent
    /\ CASE frame.kind = "Text" ->
                LET parsed == parse_message_bytes(frame.payload)
                IN IF parsed.result = Ok THEN FrameEvent(parsed.event) ELSE FrameInvalid
         [] frame.kind = "Ping" -> FramePing
         [] frame.kind = "Close" -> FrameClose
         [] OTHER -> FrameInvalid
    /\ UNCHANGED <<conn_vars, shutdown_vars>>

\* handle_invalid_messages, the send of the close message: the outcome of
\* the predicate is Ok(true), or the error of a send to a dropped receiver.
handle_invalid_messages(receiver_dropped) ==
    IF receiver_dropped THEN [result |-> "Err", keep |-> FALSE]
    ELSE [result |-> "Ok", keep |-> TRUE]

SessionCloseMessage ==
    /\ client_pc = "handle_invalid_messages"
    /\ LET out == handle_invalid_messages(ConnDone)
       IN IF out.result = "Ok"
          THEN /\ rx_msg_closing' =
                    Append(rx_msg_closing, CloseMessage("Unsupported", client_session))
               /\ AfterFrame(out.keep)
          ELSE /\ ClientBreak("Err", Err("ShutdownError", "sender.send"))
               /\ UNCHANGED rx_msg_closing
    /\ UNCHANGED <<vote_vars, writer_vars, store_vars, flag_vars, rx_future,
                   rx_closing, n_futures, client_session, session_vars, conn_vars,
                   shutdown_vars>>

\* The stream yields an error ("error"), or ends ("end").
SessionStreamOver(how) ==
    /\ client_pc = "read"
    /\ IF how = "error"
       THEN ClientBreak("Err", Err("ClientError", "stream"))
       ELSE AfterFrame(FALSE)
    /\ UNCHANGED <<vote_vars, writer_vars, store_vars, flag_vars, channel_vars,
                   client_session, session_vars, conn_vars, shutdown_vars>>

\* block_on returned Ok: the flag is read again
ClientAfterBlockOn ==
    /\ client_pc = "after_block_on"
    /\ IF ~running
       THEN ClientBreak("Ok", Ok)
       ELSE client_pc' = "try_recv" /\ UNCHANGED <<client_result, client_error, session_open>>
    /\ UNCHANGED <<vote_vars, writer_vars, store_vars, flag_vars, channel_vars,
                   client_session, session_vars, conn_vars, shutdown_vars>>

\* A closure that returns its result without the store of lines 133-135.
flag_unchanged_after_loop(result, is_running) == is_running

\* A closure that stores into the flag whether its loop ended without error.
flag_stored_after_loop(result, is_running) == result # "Err"

\* The end of a thread's closure: an error result clears the running flag.
flag_after_loop(result, is_running) == IF result = "Err" THEN FALSE ELSE is_running

ClientExit ==
    /\ client_pc = "exit"
    /\ running' = flag_after_loop(client_result, running)
    /\ client_pc' = "done"
    /\ UNCHANGED <<vote_vars, writer_vars, store_vars, reconnect, channel_vars,
                   client_session, client_result, client_error, session_open,
                   session_vars, conn_vars, shutdown_vars>>

(***************************************************************************)
(* The connection manager thread.                                          *)
(***************************************************************************)
ConnBreak(result, error) ==
    /\ conn_pc' = "exit"
    /\ conn_result' = result
    /\ conn_error' = error

\* try_recv(&rx_closing, running) and try_recv(&rx_msg_closing, running): the
\* read of the flag
ConnTryRecv ==
    /\ conn_pc \in {"sink_try_recv", "msg_try_recv"}
    /\ IF try_recv_check(running) = "none"
       THEN ConnBreak("Ok", Ok)
       ELSE /\ conn_pc' = IF conn_pc = "sink_try_recv" THEN "sink_poll" ELSE "msg_poll"
            /\ UNCHANGED <<conn_result, conn_error>>
    /\ UNCHANGED <<vote_vars, writer_vars, store_vars, flag_vars, channel_vars,
                   client_vars, conn_sink, conn_msg, sink_frames, shutdown_vars>>

\* try_recv(&rx_closing, running): the poll.  tx_closing lives in this thread.
ConnPollSink ==
    /\ conn_pc = "sink_poll"
    /\ IF try_recv_poll(rx_closing, FALSE) = "some"
       THEN /\ conn_sink' = Head(rx_closing)
            /\ rx_closing' = Tail(rx_closing)
            /\ conn_pc' = "msg_try_recv"
       ELSE /\ conn_pc' = "sink_try_recv"
            /\ UNCHANGED <<conn_sink, rx_closing>>
    /\ UNCHANGED <<vote_vars, writer_vars, store_vars, flag_vars, rx_future,
                   rx_msg_closing, n_futures, client_vars, conn_msg, conn_result,
                   conn_error, sink_frames, shutdown_vars>>

\* try_recv(&rx_msg_closing, running): the poll.  closing_msg_sender lives in
\* this thread.
ConnPollMsg ==
    /\ conn_pc = "msg_poll"
    /\ IF try_recv_poll(rx_msg_closing, FALSE) = "some"
       THEN /\ conn_msg' = Head(rx_msg_closing)
            /\ rx_msg_closing' = Tail(rx_msg_closing)
            /\ conn_pc' = "send"
       ELSE /\ conn_pc' = "msg_try_recv"
            /\ UNCHANGED <<conn_msg, rx_msg_closing>>
    /\ UNCHANGED <<vote_vars, writer_vars, store_vars, flag_vars, rx_future,
                   rx_closing, n_futures, client_vars, conn_sink, conn_result,
                   conn_error, sink_frames, shutdown_vars>>

\* sink.send(msg).wait()
ConnSend(sent) ==
    /\ conn_pc = "send"
    /\ IF sent
       THEN /\ sink_frames' = [sink_frames EXCEPT ![conn_sink] = Append(@, conn_msg)]
            /\ conn_pc' = "flags"
            /\ UNCHANGED <<conn_result, conn_error>>
       ELSE /\ ConnBreak("Err", Err("ShutdownError", "sink.send"))
            /\ UNCHANGED sink_frames
    /\ UNCHANGED <<vote_vars, writer_vars, store_vars, flag_vars, channel_vars,
                   client_vars, conn_sink, conn_msg, shutdown_vars>>

\* if !reconnect || !running { break Ok(()) }
wants_reconnect(is_reconnect, is_running) == is_reconnect /\ is_running

ConnFlags ==
    /\ conn_pc = "flags"
    /\ IF wants_reconnect(reconnect, running)
       THEN conn_pc' = "sleep" /\ UNCHANGED <<conn_result, conn_error>>
       ELSE ConnBreak("Ok", Ok)
    /\ UNCHANGED <<vote_vars, writer_vars, store_vars, flag_vars, channel_vars,
                   client_vars, conn_sink, conn_msg, sink_frames, shutdown_vars>>

\* A loop that does not read the flag again after the backoff.
ConnWake_without_recheck ==
    /\ conn_pc = "sleep"
    /\ conn_pc' = "reconnect"
    /\ UNCHANGED <<vote_vars, writer_vars, store_vars, flag_vars, channel_vars,
                   client_vars, conn_sink, conn_msg, conn_result, conn_error,
                   sink_frames, shutdown_vars>>

\* The flag read again after thread::sleep(RECONNECT_WAIT_TIME)
ConnWake ==
    /\ conn_pc = "sleep"
    /\ IF running
       THEN conn_pc' = "reconnect" /\ UNCHANGED <<conn_result, conn_error>>
       ELSE ConnBreak("Ok", Ok)
    /\ UNCHANGED <<vote_vars, writer_vars, store_vars, flag_vars, channel_vars,
                   client_vars, conn_sink, conn_msg, sink_frames, shutdown_vars>>

\* prepare_request and tx_future.send(request_future)
ConnReconnect ==
    /\ conn_pc = "reconnect"
    /\ n_futures' = n_futures + 1
    /\ IF ClientDone
       THEN /\ ConnBreak("Err", Err("StartUpError", "tx_future.send"))
            /\ UNCHANGED rx_future
       ELSE /\ rx_future' = Append(rx_future, n_futures')
            /\ conn_pc' = "reset"
            /\ UNCHANGED <<conn_result, conn_error>>
    /\ UNCHANGED <<vote_vars, writer_vars, store_vars, flag_vars, rx_closing,
                   rx_msg_closing, client_vars, conn_sink, conn_msg, sink_frames,
                   shutdown_vars>>

\* A loop that keeps the sink it has and goes on to the next close message.
ConnReset_keeps_sink ==
    /\ conn_pc = "reset"
    /\ reconnect' = FALSE
    /\ conn_pc' = "msg_try_recv"
    /\ conn_msg' = NoMessage
    /\ UNCHANGED <<vote_vars, writer_vars, store_vars, running, channel_vars, client_vars,
                   conn_sink, conn_result, conn_error, sink_frames, shutdown_vars>>

\* reconnect.store(false); the sink and the message go out of scope
ConnReset ==
    /\ conn_pc = "reset"
    /\ reconnect' = FALSE
    /\ conn_pc' = "sink_try_recv"
    /\ conn_sink' = 0
    /\ conn_msg' = NoMessage
    /\ UNCHANGED <<vote_vars, writer_vars, store_vars, running, channel_vars,
                   client_vars, conn_result, conn_error, sink_frames, shutdown_vars>>

ConnExit ==
    /\ conn_pc = "exit"
    /\ running' = flag_after_loop(conn_result, running)
    /\ conn_pc' = "done"
    /\ UNCHANGED <<vote_vars, writer_vars, store_vars, reconnect, channel_vars,
                   client_vars, conn_sink, conn_msg, conn_result, conn_error,
                   sink_frames, shutdown_vars>>

(***************************************************************************)
(* AppAuthHandlerShutdownHandle::shutdown                                  *)
(***************************************************************************)
\* A session is connected, and the connection manager holds its sink and is
\* in try_recv(&rx_msg_closing, running).
SessionHeldWaiting ==
    /\ client_pc = "read"
    /\ conn_sink = client_session
    /\ conn_pc \in {"msg_try_recv", "msg_poll"}

\* shutdown_signaler.store(false)
ShutdownStore ==
    /\ shutdown_pc = "idle"
    /\ Disturbances < MaxDisturbances
    /\ shutdown_calls' = shutdown_calls + 1
    /\ running' = FALSE
    /\ shutdown_pc' = "send"
    /\ shutdown_seen' = IF SessionHeldWaiting THEN conn_sink ELSE 0
    /\ UNCHANGED <<vote_vars, writer_vars, store_vars, reconnect, channel_vars,
                   client_vars, conn_vars, shutdown_result>>

\* tx_msg_closing.send(Message::Close(..Normal..))
ShutdownSend ==
    /\ shutdown_pc = "send"
    /\ IF ConnDone
       THEN /\ shutdown_result' = "Err"
            /\ UNCHANGED rx_msg_closing
       ELSE /\ shutdown_result' = "Ok"
            /\ rx_msg_closing' = Append(rx_msg_closing, CloseMessage("Normal", 0))
    /\ shutdown_pc' = "idle"
    /\ UNCHANGED <<vote_vars, writer_vars, store_vars, flag_vars, rx_future,
                   rx_closing, n_futures, client_vars, conn_vars, shutdown_calls,
                   shutdown_seen>>

(***************************************************************************)
(* The handler as started by run().                                        *)
(***************************************************************************)
ClientStep ==
    \/ ClientTryRecv
    \/ ClientPoll
    \/ \E outcome \in ConnectOutcomes : ClientConnect(outcome)
    \/ SessionCloseMessage
    \/ ClientAfterBlockOn
    \/ ClientExit

\* The frame is a text frame that decodes to an event.
decodes(frame) ==
    frame.kind = "Text" /\ parse_message_bytes(frame.payload).result = Ok

ServerStep ==
    \/ \E frame \in Frames :
        /\ decodes(frame) => n_calls < MaxFrameEvents
        /\ SessionFrame(frame)
    \/ \E how \in {"error", "end"} : SessionStreamOver(how)

ConnStep ==
    \/ ConnTryRecv
    \/ ConnPollSink
    \/ ConnPollMsg
    \/ \E sent \in BOOLEAN : ConnSend(sent)
    \/ ConnFlags
    \/ ConnWake
    \/ ConnReconnect
    \/ ConnReset
    \/ ConnExit

ShutdownStep == ShutdownStore \/ ShutdownSend

Next == ClientStep \/ ServerStep \/ ConnStep \/ ShutdownStep

Spec == Init /\ [][Next]_vars

\* The sessions alone: the client thread and the frames it is sent, while the
\* connection manager is not scheduled and shutdown() is not called.
SessionStep ==
    \/ \E frame \in Frames : SessionFrame(frame)
    \/ \E how \in {"error", "end"} : SessionStreamOver(how)

NextSession == ClientStep \/ SessionStep

SpecSession == Init /\ [][NextSession]_vars

\* The two threads are scheduled, and a shutdown() call that has begun
\* returns; the server owes no frame, and nobody owes a shutdown() call.
FairSpec ==
    Spec /\ WF_vars(ClientStep) /\ WF_vars(ConnStep) /\ WF_vars(ShutdownSend)

(***************************************************************************)
(* submit_vote: the vote is posted to {url}/admin/vote and the answer is   *)
(* turned into the result.                                                 *)
(***************************************************************************)
\* The url argument: one the request builder accepts, one it rejects.
Urls == {"http://splinterd:8085", "splinterd 8085"}
Votes == {[circuit_id |-> c, vote |-> v] : c \in CircuitIds, v \in {"Accept", "Reject"}}
\* StatusCode of a response; 202 is StatusCode::ACCEPTED
StatusCodes == {200, 202, 204, 400, 404, 500}
\* What reading the body of a response gives: bytes that are UTF-8 text,
\* bytes that are not, or a failure of the body stream ("read_error").
BodyOutcomes == {"", "Proposal not found", "not_utf8", "read_error"}
\* What client.request(req) resolves to: a response, or an error of the client.
Responses ==
    {[received |-> FALSE, status |-> 0, body |-> "-"]} \cup
    {[received |-> TRUE, status |-> s, body |-> b] : s \in StatusCodes, b \in BodyOutcomes}

\* "The server returned an error. Status: {}, {}"
ServerError(status, body) == Err("SubmitVoteError", <<"server", status, body>>)
\* "The client encountered an error {}"
ClientError(err) == Err("SubmitVoteError", <<"client", err>>)

submit_vote(url, vote, runtime_new, response) ==
    IF url = "splinterd 8085" THEN Err("RequestError", <<url>>)
    ELSE IF ~runtime_new THEN Err("io::Error", <<"Runtime::new">>)
    ELSE IF ~response.received THEN ClientError("request")
    ELSE IF response.body = "read_error" THEN ClientError("concat2")
    ELSE IF response.status = 202 THEN Ok
    ELSE IF response.body = "not_utf8" THEN Err("FromUtf8Error", <<"body">>)
    ELSE ServerError(response.status, response.body)

\* One call of submit_vote(url, vote).
SubmitVote ==
    /\ \E url \in Urls, vote \in Votes, runtime_new \in BOOLEAN, response \in Responses :
        vote_call' =
            [url |-> url, vote |-> vote, runtime_new |-> runtime_new,
             response |-> response, result |-> submit_vote(url, vote, runtime_new, response)]
    /\ UNCHANGED <<writer_vars, store_vars, flag_vars, channel_vars, client_vars,
                   conn_vars, shutdown_vars>>

NextVote == SubmitVote

SpecVote == Init /\ [][NextVote]_vars

(***************************************************************************)
(* process_admin_event step by step, next to another writer of the store:  *)
(* the lookup of the Pending proposal is one statement on a connection of   *)
(* its own, the writes that follow are another step.                       *)
(***************************************************************************)
\* The part of a call that follows a lookup that returned a proposal.
writes_after_lookup(d, admin_event, proposal, time, fail) ==
    CASE admin_event.type = "ProposalVote" ->
            proposal_vote_writes(d, proposal, admin_event, time, fail)
      [] admin_event.type = "ProposalAccepted" ->
            proposal_resolved_writes(d, proposal, time, fail, "Accepted")
      [] admin_event.type = "ProposalRejected" ->
            proposal_resolved_writes(d, proposal, time, fail, "Rejected")

\* A row is locked against other writers while a transaction that has read
\* it is open.
Locked(proposal_id) ==
    applier.pc = "looked_up" /\ applier.in_transaction /\ applier.proposal.id = proposal_id

\* A ProposalSubmitted event: no lookup, one transaction.
ApplierSubmit ==
    /\ applier.pc = "idle"
    /\ n_calls < MaxCalls
    /\ \E admin_event \in ProposalSubmittedEvents, time \in Times,
          fail \in FailPoints("ProposalSubmitted") :
        Apply(admin_event, time, 1, fail)
    /\ UNCHANGED <<vote_vars, writer_vars, flag_vars, channel_vars, client_vars,
                   conn_vars, shutdown_vars>>

\* get_pending_proposal_with_circuit_id: its own pool.get(), the fetch, and
\* the connection goes back to the pool; no transaction is open.  A lookup
\* that fails ends the call.
ApplierLookup ==
    /\ applier.pc = "idle"
    /\ n_calls < MaxCalls
    /\ \E admin_event \in AdminServiceEvent \ ProposalSubmittedEvents :
        \E pick \in Picks(db, admin_event), fail \in {"none", "pool_get", "fetch"} :
            LET lookup ==
                    get_pending_proposal_with_circuit_id(db, admin_event.circuit_id, pick,
                                                         fail)
            IN IF lookup.result # Ok
               THEN /\ Apply(admin_event, 0, pick, fail)
                    /\ UNCHANGED applier
               ELSE /\ applier' =
                        [pc |-> "looked_up", admin_event |-> admin_event,
                         proposal |-> lookup.proposal, in_transaction |-> FALSE]
                    /\ UNCHANGED store_vars
    /\ UNCHANGED <<vote_vars, n_writes, flag_vars, channel_vars, client_vars, conn_vars,
                   shutdown_vars>>

\* The rest of the call: the clock is read, a connection is taken from the
\* pool and the writes run on the store as it is now.
ApplierWrite ==
    /\ applier.pc = "looked_up"
    /\ \E time \in Times,
          fail \in FailPoints(applier.admin_event.type) \ {"pool_get", "fetch"} :
        LET out == writes_after_lookup(db, applier.admin_event, applier.proposal, time,
                                       fail)
        IN /\ db' = out.db
           /\ last_call' =
                [admin_event |-> applier.admin_event, result |-> out.result,
                 log |-> out.log]
    /\ n_calls' = n_calls + 1
    /\ applier' = NoLookup
    /\ UNCHANGED <<vote_vars, uuids, n_writes, flag_vars, channel_vars, client_vars,
                   conn_vars, shutdown_vars>>

\* Another writer of the store resolves a Pending proposal that no open
\* transaction has locked.
OtherWriter ==
    /\ n_writes < MaxOtherWrites
    /\ \E i \in 1..Len(db.circuit_proposal), status \in {"Accepted", "Rejected"},
          time \in Times :
        /\ db.circuit_proposal[i].status = "Pending"
        /\ ~Locked(db.circuit_proposal[i].id)
        /\ db' = update_circuit_proposal_status(db, db.circuit_proposal[i].id, time, status)
    /\ n_writes' = n_writes + 1
    /\ UNCHANGED <<vote_vars, applier, uuids, n_calls, last_call, flag_vars, channel_vars,
                   client_vars, conn_vars, shutdown_vars>>

NextWriters == ApplierSubmit \/ ApplierLookup \/ ApplierWrite \/ OtherWriter

SpecWriters == Init /\ [][NextWriters]_vars

(***************************************************************************)
(* Vocabulary of the properties of the event applier.                      *)
(***************************************************************************)
\* This step is one call of process_admin_event, on an event of this type.
Applied(type) == n_calls' = n_calls + 1 /\ last_call'.admin_event.type = type

Proposals(d) == d.circuit_proposal
HasPending(d, circuit_id) == MatchingRows(d, circuit_id, "Pending") # << >>

\* d2 is d1 with rows appended to this table and nothing else changed.
Appended(d1, d2, table, rows) == d2 = [d1 EXCEPT ![table] = @ \o rows]

\* The rows of d2's proposal table are those of d1, but for row i.
OnlyRowChanged(d1, d2, i) ==
    /\ Len(Proposals(d2)) = Len(Proposals(d1))
    /\ \A j \in 1..Len(Proposals(d1)) : j # i => Proposals(d2)[j] = Proposals(d1)[j]
    /\ d2.proposal_circuit_member = d1.proposal_circuit_member
    /\ d2.proposal_circuit_service = d1.proposal_circuit_service

\* The rows of one submission, all present in d2 and none of them in d1.
FullySubmitted(d1, d2, msg_proposal) ==
    \E p \in {Proposals(d2)[i] : i \in 1..Len(Proposals(d2))} :
        /\ Proposals(d2) = Append(Proposals(d1), p)
        /\ \A i \in 1..Len(Proposals(d1)) : Proposals(d1)[i].id # p.id
        /\ p.status = "Pending" /\ p.circuit_id = msg_proposal.circuit_id
        /\ d2.proposal_circuit_member =
              d1.proposal_circuit_member \o
                [i \in 1..Len(msg_proposal.members) |->
                    [proposal_id |-> p.id, node_id |-> msg_proposal.members[i]]]
        /\ d2.proposal_circuit_service =
              d1.proposal_circuit_service \o
                [i \in 1..Len(msg_proposal.roster) |->
                    [proposal_id |-> p.id, service_id |-> msg_proposal.roster[i]]]
        /\ d2.proposal_vote_record = d1.proposal_vote_record

\* Every member and service row belongs to a proposal row of the store.
NoOrphanRows(d) ==
    LET ids == {Proposals(d)[i].id : i \in 1..Len(Proposals(d))}
    IN /\ \A i \in 1..Len(d.proposal_circuit_member) :
            d.proposal_circuit_member[i].proposal_id \in ids
       /\ \A i \in 1..Len(d.proposal_circuit_service) :
            d.proposal_circuit_service[i].proposal_id \in ids

\* The errors of a lookup that could not be run: no pooled connection, or
\* the query failed.
LookupFailures == {Err("PoolError", "-"), Err("DatabaseError", "fetch")}

(***************************************************************************)
(* C1: every ProposalSubmitted event applied leaves either all the rows of *)
(* the submission (one new Pending proposal row, a member row per declared *)
(* member, a service row per declared service) when it succeeds, or none   *)
(* of them when it fails; no member or service row is ever without its     *)
(* proposal row.                                                           *)
(***************************************************************************)
C1_SubmittedAllOrNothing ==
    [][Applied("ProposalSubmitted") =>
        /\ last_call'.result = Ok => FullySubmitted(db, db', last_call'.admin_event)
        /\ last_call'.result # Ok => db' = db
        /\ NoOrphanRows(db')]_vars

\* A submission whose member insert failed, after one that succeeded.
C1_Witness ==
    /\ last_call.admin_event.type = "ProposalSubmitted"
    /\ last_call.result = Err("DatabaseError", "insert_circuit_member")
    /\ Len(db.circuit_proposal) = 1
    /\ Len(db.proposal_circuit_member) = 2
    /\ Len(db.proposal_circuit_service) = 1

(***************************************************************************)
(* C2: a ProposalVote event applied with success appends exactly one vote  *)
(* record, for a proposal that was Pending under the event's circuit_id;   *)
(* that proposal stays Pending and its updated_time is the created_time of *)
(* the new vote record; nothing else changes.                              *)
(***************************************************************************)
C2_VoteAppendsOneRecordSameTime ==
    [][(Applied("ProposalVote") /\ last_call'.result = Ok) =>
        \E i \in 1..Len(Proposals(db)) :
            LET p == Proposals(db)[i]
                v == db'.proposal_vote_record[Len(db'.proposal_vote_record)]
            IN /\ p.status = "Pending"
               /\ p.circuit_id = last_call'.admin_event.circuit_id
               /\ Len(db'.proposal_vote_record) = Len(db.proposal_vote_record) + 1
               /\ db'.proposal_vote_record = Append(db.proposal_vote_record, v)
               /\ v.proposal_id = p.id
               /\ v.voter_public_key = last_call'.admin_event.signer_public_key
               /\ v.vote = last_call'.admin_event.vote
               /\ OnlyRowChanged(db, db', i)
               /\ Proposals(db')[i] = [p EXCEPT !.updated_time = v.created_time]]_vars

\* A vote applied with success to a proposal created at another time.
C2_Witness ==
    /\ last_call.admin_event.type = "ProposalVote"
    /\ last_call.result = Ok
    /\ \E i \in 1..Len(Proposals(db)) :
        /\ Proposals(db)[i].status = "Pending"
        /\ Proposals(db)[i].updated_time # Proposals(db)[i].created_time
        /\ \E j \in 1..Len(db.proposal_vote_record) :
            /\ db.proposal_vote_record[j].proposal_id = Proposals(db)[i].id
            /\ db.proposal_vote_record[j].created_time = Proposals(db)[i].updated_time

(***************************************************************************)
(* C3, as stated: a ProposalVote event whose circuit_id has no Pending     *)
(* proposal returns the no-pending-proposal error naming that circuit_id   *)
(* and leaves the four tables unchanged.                                   *)
(***************************************************************************)
C3_VoteWithoutPendingIsNoPendingError ==
    [][(Applied("ProposalVote")
            /\ ~HasPending(db, last_call'.admin_event.circuit_id)) =>
        /\ last_call'.result = NoPendingProposal(last_call'.admin_event.circuit_id)
        /\ db' = db]_vars

(***************************************************************************)
(* C3, amended: a ProposalVote event whose circuit_id has no Pending       *)
(* proposal returns an error and leaves the four tables unchanged; the     *)
(* error is the no-pending-proposal error naming that circuit_id, unless   *)
(* the lookup itself could not be run (no pooled connection, or the query  *)
(* failed), in which case it is that persistence error.                    *)
(***************************************************************************)
C3_VoteWithoutPendingFails ==
    [][(Applied("ProposalVote")
            /\ ~HasPending(db, last_call'.admin_event.circuit_id)) =>
        /\ last_call'.result \in
              {NoPendingProposal(last_call'.admin_event.circuit_id)} \cup LookupFailures
        /\ db' = db]_vars

\* A vote refused on a circuit whose only proposal is Accepted or Rejected.
C3_Witness ==
    /\ last_call.admin_event.type = "ProposalVote"
    /\ last_call.result = NoPendingProposal(last_call.admin_event.circuit_id)
    /\ \E i \in 1..Len(Proposals(db)) :
        /\ Proposals(db)[i].circuit_id = last_call.admin_event.circuit_id
        /\ Proposals(db)[i].status \in {"Accepted", "Rejected"}

(***************************************************************************)
(* C4: a ProposalAccepted (resp. ProposalRejected) event applied with      *)
(* success changes the status of a proposal that was Pending under the     *)
(* event's circuit_id to Accepted (resp. Rejected), makes its updated_time *)
(* strictly greater than it was, and changes no other proposal row.        *)
(***************************************************************************)
C4_ResolvedStrictlyLaterUpdatedTime ==
    [][\A type \in {"ProposalAccepted", "ProposalRejected"} :
        (Applied(type) /\ last_call'.result = Ok) =>
            \E i \in 1..Len(Proposals(db)) :
                /\ Proposals(db)[i].status = "Pending"
                /\ Proposals(db)[i].circuit_id = last_call'.admin_event.circuit_id
                /\ OnlyRowChanged(db, db', i)
                /\ Proposals(db')[i].status =
                      (IF type = "ProposalAccepted" THEN "Accepted" ELSE "Rejected")
                /\ Proposals(db')[i].updated_time > Proposals(db)[i].updated_time]_vars

(***************************************************************************)
(* C5, as stated: a ProposalAccepted or ProposalRejected event whose       *)
(* circuit_id has no Pending proposal fails with the no-pending-proposal   *)
(* error and changes no row of the store.                                  *)
(***************************************************************************)
C5_ResolveWithoutPendingIsNoPendingError ==
    [][\A type \in {"ProposalAccepted", "ProposalRejected"} :
        (Applied(type) /\ ~HasPending(db, last_call'.admin_event.circuit_id)) =>
            /\ last_call'.result =
                  NoPendingProposal(last_call'.admin_event.circuit_id)
            /\ db' = db]_vars

(***************************************************************************)
(* C5, amended: a ProposalAccepted or ProposalRejected event whose         *)
(* circuit_id has no Pending proposal fails and changes no row of the      *)
(* store; the error is the no-pending-proposal error, unless the lookup    *)
(* itself could not be run (no pooled connection, or the query failed).    *)
(***************************************************************************)
C5_ResolveWithoutPendingFails ==
    [][\A type \in {"ProposalAccepted", "ProposalRejected"} :
        (Applied(type) /\ ~HasPending(db, last_call'.admin_event.circuit_id)) =>
            /\ last_call'.result \in
                  {NoPendingProposal(last_call'.admin_event.circuit_id)}
                      \cup LookupFailures
            /\ db' = db]_vars

\* An accept or reject refused on a circuit that is already resolved.
C5_Witness ==
    /\ last_call.admin_event.type \in {"ProposalAccepted", "ProposalRejected"}
    /\ last_call.result = NoPendingProposal(last_call.admin_event.circuit_id)
    /\ \E i \in 1..Len(Proposals(db)) :
        /\ Proposals(db)[i].circuit_id = last_call.admin_event.circuit_id
        /\ Proposals(db)[i].status \in {"Accepted", "Rejected"}

(***************************************************************************)
(* C6: in every reachable state of the store at most one proposal row of a *)
(* given circuit_id has status Pending.                                    *)
(***************************************************************************)
C6_AtMostOnePendingPerCircuit ==
    \A c \in CircuitIds : Len(MatchingRows(db, c, "Pending")) <= 1

(***************************************************************************)
(* Vocabulary of the properties of the handler's threads.                  *)
(***************************************************************************)
\* The session being driven has passed the invalid-message threshold.
Exceeded == exceeded_at # -1

\* A close frame with this reason is among the frames written to the sink.
Written(code, sink) ==
    \E i \in 1..Len(sink_frames[sink]) : sink_frames[sink][i].code = code

\* The close message of this session, with this reason, is the newest queued.
Enqueued(queue, code, session) ==
    /\ queue # << >>
    /\ queue[Len(queue)] = CloseMessage(code, session)

(***************************************************************************)
(* C7: once a session has received more than 10 consecutive invalid        *)
(* frames, it sets the reconnect flag, enqueues a close message with the   *)
(* unsupported reason, and handles (decodes, applies) no further frame.    *)
(***************************************************************************)
C7_StopsReadingPastThreshold ==
    [][/\ (~Exceeded /\ Exceeded') => reconnect'
       /\ (client_pc = "handle_invalid_messages" /\ client_pc' = "read") =>
            Enqueued(rx_msg_closing', "Unsupported", client_session)
       /\ Exceeded => \A frame \in Frames : ~SessionFrame(frame)]_vars

(***************************************************************************)
(* C8: after shutdown() is invoked, whatever the two threads are doing,    *)
(* the client thread and the connection manager thread both return in the  *)
(* end.                                                                    *)
(***************************************************************************)
C8_ShutdownTerminatesBothLoops ==
    (shutdown_calls > 0) ~> (ClientDone /\ ConnDone)

(***************************************************************************)
(* C9: if shutdown() is invoked while a session is connected and the       *)
(* connection manager holds its sink and waits for a close message, then   *)
(* the connection manager, unless a send to the sink fails, has written    *)
(* the close frame with the normal reason to that sink when it returns.    *)
(***************************************************************************)
C9_NormalCloseWrittenBeforeExit ==
    (ConnDone /\ shutdown_seen # 0 /\ conn_result # "Err") =>
        Written("Normal", shutdown_seen)

(***************************************************************************)
(* C10: when a session, the first or a later one, has passed the           *)
(* invalid-message threshold, the connection manager does not return with  *)
(* success before it has enqueued a new request future, as long as the     *)
(* running flag is set (a send that fails makes it return an error).       *)
(***************************************************************************)
C10_NewAttemptBeforeReturn ==
    (Exceeded /\ exceeded_at = n_futures /\ running) =>
        ~(ConnDone /\ conn_result = "Ok")

\* The session being driven is reading frames.
Reading == client_pc \in {"read", "handle_invalid_messages"}

\* The error of a transport failure: the request or the upgrade failed, or
\* the stream yielded an error.
TransportFailure(error) == error.kind = "ClientError"

(***************************************************************************)
(* C11: the client thread, ending on a transport failure of its session    *)
(* (handshake rejected, I/O error on the stream) met while the running     *)
(* flag was true, does not clear the running flag (and a new connection    *)
(* attempt is enqueued).                                                   *)
(***************************************************************************)
C11_TransportFailureKeepsRunning ==
    [][(client_pc = "exit" /\ client_pc' = "done" /\ TransportFailure(client_error)
            /\ running) => running']_vars

(***************************************************************************)
(* C12: if the stream of a session ends with no close frame while the      *)
(* running flag is true, a later session is started in the end, unless the *)
(* running flag is cleared.                                                *)
(***************************************************************************)
C12_SilentDropLeadsToNewSession ==
    \A k \in 1..MaxSessions :
        (client_pc = "after_block_on" /\ client_session = k /\ running)
            ~> (client_session > k \/ ~running)

(***************************************************************************)
(* C13: once a session has received a close frame, the running flag is     *)
(* false, no session reads, and neither thread ends with an error (a       *)
(* write to the sink that fails aside), whatever the connection manager    *)
(* was doing.                                                              *)
(***************************************************************************)
C13_RemoteCloseEndsWithoutError ==
    remote_close =>
        /\ ~running
        /\ ~Reading
        /\ client_result # "Err"
        /\ conn_result = "Err" => conn_error = Err("ShutdownError", "sink.send")

(***************************************************************************)
(* C14: a thread (client or connection manager) that has returned an error *)
(* has left the running flag false, and the flag is false in every later   *)
(* state.                                                                  *)
(***************************************************************************)
C14_ErrorExitClearsRunning ==
    \/ ~running
    \/ /\ ~(ClientDone /\ client_result = "Err")
       /\ ~(ConnDone /\ conn_result = "Err")

\* The client thread has returned an error, the connection manager is still
\* in its loop and has yet to read the flag.
C14_Witness ==
    /\ ClientDone
    /\ client_result = "Err"
    /\ conn_pc \in {"sink_try_recv", "msg_try_recv", "flags", "sleep"}
    /\ ~running
    /\ shutdown_calls = 0
    /\ ~remote_close

C16_OneSessionAtATime ==
    [][(client_session' # client_session \/ (~Reading /\ Reading')) =>
            ~session_open]_vars

\* The reconnect request waits in the queue while the session that caused
\* it is still reading.
C16_Witness ==
    /\ rx_future = <<2>>
    /\ client_session = 1
    /\ Reading
    /\ session_open

\* This step is one whole call of process_admin_event on this event, made
\* on the store as the step found it.
AppliedNow(admin_event) ==
    /\ n_calls' = n_calls + 1
    /\ last_call'.admin_event = admin_event
    /\ \E time \in Times, pick \in Picks(db, admin_event),
          fail \in FailPoints(admin_event.type) :
        LET out == process_admin_event(db, admin_event, time, uuids + 1, pick, fail)
        IN /\ db' = out.db
           /\ last_call'.result = out.result
           /\ last_call'.log = out.log

C19_SeveralPendingFails ==
    [][(/\ \E type \in {"ProposalVote", "ProposalAccepted", "ProposalRejected"} :
            Applied(type)
        /\ Len(MatchingRows(db, last_call'.admin_event.circuit_id, "Pending")) > 1) =>
            /\ last_call'.result # Ok
            /\ db' = db]_vars

(***************************************************************************)
(* C20: a second call of shutdown() that has returned, in whatever state   *)
(* it was made, has succeeded and left the running flag false.             *)
(***************************************************************************)
C20_SecondShutdownSucceeds ==
    (shutdown_calls >= 2 /\ shutdown_pc = "idle") =>
        (shutdown_result = "Ok" /\ ~running)

(***************************************************************************)
(* Vocabulary of the properties of submit_vote.                            *)
(***************************************************************************)
\* The last call posted its request and the service answered it.
Answered ==
    /\ vote_call.url = "http://splinterd:8085"
    /\ vote_call.runtime_new
    /\ vote_call.response.received

\* The last call posted its request and the request failed in transport.
RequestFailed ==
    /\ vote_call.url = "http://splinterd:8085"
    /\ vote_call.runtime_new
    /\ ~vote_call.response.received

\* C21: submit_vote returns Ok exactly when the service answers the POST
\* with status 202; an answer with any other status gives an error carrying
\* that status and the body text; a transport failure of the request gives
\* an error.
C21_OkExactlyOnAccepted ==
    vote_call.url # "-" =>
        /\ vote_call.result.kind = "Ok" <=> (Answered /\ vote_call.response.status = 202)
        /\ Answered /\ vote_call.response.status # 202 =>
                /\ vote_call.result.kind = "SubmitVoteError"
                /\ vote_call.result.arg =
                        <<"server", vote_call.response.status, vote_call.response.body>>
        /\ RequestFailed => vote_call.result.kind # "Ok"

(***************************************************************************)
(* C22: after every frame a session handles, the frame that takes the      *)
(* counter past the threshold included, the session goes on reading only   *)
(* if the running flag is true at that moment.                             *)
(***************************************************************************)
C22_ContinuesOnlyWhileRunning ==
    [][(Reading /\ client_vars' # client_vars /\ client_pc' = "read") => running']_vars

(***************************************************************************)
(* C23: the invalid-message counter of a session is the number of invalid  *)
(* frames received since the last valid frame (text that decodes, ping,    *)
(* close) or since the session started; every session starts at zero.      *)
(***************************************************************************)
C23_CounterCountsConsecutiveInvalid == invalid_message_count = invalid_run

\* A second session, started after the first one counted past the threshold,
\* has counted one invalid frame.
C23_Witness ==
    /\ client_session = 2
    /\ client_pc = "read"
    /\ invalid_message_count = 1

\* This step is an invalid frame that leaves the run of invalid frames at the
\* threshold or below.
InvalidFrameBelowThreshold ==
    /\ client_pc = "read"
    /\ invalid_run' = invalid_run + 1
    /\ invalid_run' <= INVALID_MESSAGE_THRESHOLD

\* This step asks for a close with reconnect: the reconnect flag is raised,
\* or a close message with the unsupported reason is enqueued.
ReconnectRequested ==
    \/ ~reconnect /\ reconnect'
    \/ /\ Len(rx_msg_closing') = Len(rx_msg_closing) + 1
       /\ rx_msg_closing'[Len(rx_msg_closing')].code = "Unsupported"

\* C24 as stated: an invalid frame that leaves the counter at 10 or below
\* changes neither the store, nor the two flags, nor the close-message queue,
\* and the session keeps reading; no close with reconnect is requested by a
\* session that has not received 11 consecutive invalid frames.
C24_InvalidFrameOnlyCounts ==
    [][/\ InvalidFrameBelowThreshold =>
            /\ UNCHANGED <<store_vars, flag_vars, rx_msg_closing>>
            /\ client_pc' = "read"
       /\ ReconnectRequested => invalid_run' > INVALID_MESSAGE_THRESHOLD]_vars

\* C24, amended: an invalid frame that leaves the counter at 10 or below
\* changes neither the store, nor the two flags, nor the close-message queue,
\* and the session keeps reading if the running flag is true, and stops
\* reading if it is false; no close with reconnect is requested by a session
\* that has not received 11 consecutive invalid frames.
C24_InvalidFrameOnlyCountsWhileRunning ==
    [][/\ InvalidFrameBelowThreshold =>
            /\ UNCHANGED <<store_vars, flag_vars, rx_msg_closing>>
            /\ invalid_message_count' = invalid_message_count + 1
            /\ client_pc' = IF running THEN "read" ELSE "after_block_on"
       /\ ReconnectRequested => invalid_run' > INVALID_MESSAGE_THRESHOLD]_vars

\* A session has received 10 consecutive invalid frames and reads on; no
\* reconnect was requested.
C24_Witness ==
    /\ client_pc = "read"
    /\ invalid_run = INVALID_MESSAGE_THRESHOLD
    /\ running
    /\ ~reconnect
    /\ rx_msg_closing = << >>

\* The statements the last step ran are the first ones of this sequence, all
\* of it if the call succeeded.
RanInOrder(order) ==
    /\ Len(last_call'.log) <= Len(order)
    /\ \A i \in 1..Len(last_call'.log) : last_call'.log[i] = order[i]
    /\ last_call'.result = Ok => Len(last_call'.log) = Len(order)

\* C25 as stated: a ProposalSubmitted event applied runs its inserts in the
\* order proposal row, member rows, service rows.
C25_ProposalThenMembersThenServices ==
    [][Applied("ProposalSubmitted") =>
        RanInOrder(<<"insert_circuit_proposal", "insert_circuit_member",
                     "insert_circuit_service">>)]_vars

\* C25, amended: a ProposalSubmitted event applied runs its inserts in the
\* order proposal row, service rows, member rows.
C25_ProposalThenServicesThenMembers ==
    [][Applied("ProposalSubmitted") =>
        RanInOrder(<<"insert_circuit_proposal", "insert_circuit_service",
                     "insert_circuit_member">>)]_vars

\* A submission whose second insert, the one of the service rows, failed.
C25_Witness ==
    /\ last_call.admin_event.type = "ProposalSubmitted"
    /\ last_call.result = Err("DatabaseError", "insert_circuit_service")
    /\ last_call.log = <<"insert_circuit_proposal", "insert_circuit_service">>

(***************************************************************************)
(* C26: a ProposalVote event whose apply fails, at whatever step (the      *)
(* voter key is not valid text, the update of the proposal fails, the      *)
(* insert of the vote record fails after the update), leaves every         *)
(* proposal row, its updated_time included, and the vote table as they     *)
(* were: no refreshed updated_time is left without its vote record.        *)
(***************************************************************************)
C26_FailedVoteLeavesNoTrace ==
    [][(Applied("ProposalVote") /\ last_call'.result # Ok) =>
        /\ Proposals(db') = Proposals(db)
        /\ db'.proposal_vote_record = db.proposal_vote_record]_vars

\* A vote on a Pending proposal whose vote record could not be inserted,
\* after the update of the proposal had run.
C26_Witness ==
    /\ last_call.admin_event.type = "ProposalVote"
    /\ last_call.result = Err("DatabaseError", "insert_proposal_vote_record")
    /\ last_call.log = <<"update_circuit_proposal_status", "insert_proposal_vote_record">>
    /\ HasPending(db, last_call.admin_event.circuit_id)
    /\ db.proposal_vote_record = << >>

(***************************************************************************)
(* C27: for ProposalVote, ProposalAccepted and ProposalRejected the lookup  *)
(* of the Pending proposal and the update that follows run inside one      *)
(* transaction, so between the two the proposal that was looked up is      *)
(* still Pending in the store: no other writer has changed its status.     *)
(***************************************************************************)
C27_LookupAndUpdateInOneTransaction ==
    applier.pc = "looked_up" =>
        \E i \in 1..Len(Proposals(db)) :
            /\ Proposals(db)[i].id = applier.proposal.id
            /\ Proposals(db)[i].status = "Pending"

(***************************************************************************)
(* C28: a session that has completed the handshake has handed its sink to   *)
(* the connection manager exactly once, before it reads a frame; a sink is  *)
(* written to only by the connection manager, at most once, with the close *)
(* message it has received, after it has received that sink.               *)
(***************************************************************************)
C28_SinkHandedOnceWrittenOnce ==
    /\ [](/\ \A s \in 1..MaxSessions :
                /\ sinks_sent[s] <= 1
                /\ Len(sink_frames[s]) <= 1
           /\ Reading => sinks_sent[client_session] = 1)
    /\ [][sink_frames' # sink_frames =>
            /\ conn_pc = "send"
            /\ conn_sink # 0
            /\ sinks_sent[conn_sink] = 1
            /\ conn_msg # NoMessage
            /\ sink_frames' = [sink_frames EXCEPT ![conn_sink] = <<conn_msg>>]]_vars

\* The sink of the first session has been written to, and a second session,
\* whose sink the connection manager has not taken yet, reads.
C28_Witness ==
    /\ Len(sink_frames[1]) = 1
    /\ client_session = 2
    /\ client_pc = "read"
    /\ rx_closing = <<2>>

\* The connection manager has written a close frame to the sink it holds.
CloseFrameWritten == conn_sink # 0 /\ Len(sink_frames[conn_sink]) = 1

(***************************************************************************)
(* C29: the connection manager starts the backoff only after it has        *)
(* written a close frame and has read both flags true; it goes on to       *)
(* enqueue a connection attempt only if it reads the running flag true     *)
(* after the backoff, and enqueues attempts nowhere else; if it reads the   *)
(* running flag false after the backoff it enqueues nothing and leaves its  *)
(* loop without error.                                                     *)
(***************************************************************************)
C29_ReconnectOnlyWhileRunning ==
    [][/\ (conn_pc # "sleep" /\ conn_pc' = "sleep") =>
            conn_pc = "flags" /\ CloseFrameWritten /\ reconnect /\ running
       /\ (conn_pc # "reconnect" /\ conn_pc' = "reconnect") =>
            conn_pc = "sleep" /\ CloseFrameWritten /\ running
       /\ (n_futures' # n_futures \/ Len(rx_future') > Len(rx_future)) =>
            conn_pc = "reconnect" /\ CloseFrameWritten
       /\ (conn_pc = "sleep" /\ conn_pc' # conn_pc /\ ~running) =>
            /\ conn_pc' = "exit"
            /\ conn_result' = "Ok"
            /\ UNCHANGED <<rx_future, n_futures>>]_vars

\* The connection manager has written the close frame of the first session
\* and has enqueued a second connection attempt.
C29_Witness ==
    /\ conn_pc = "reset"
    /\ Len(sink_frames[1]) = 1
    /\ n_futures = 2
    /\ rx_future = <<2>>

\* Every row of the first table is still in the second, at its place.
RowsKept(before, after) ==
    /\ Len(before) <= Len(after)
    /\ \A i \in 1..Len(before) : after[i] = before[i]

(***************************************************************************)
(* C30: an applied event changes the status of a proposal only from        *)
(* Pending to Accepted or to Rejected; a proposal that is Accepted or       *)
(* Rejected is left as it is; and no proposal, member, service or vote row  *)
(* is removed.                                                             *)
(***************************************************************************)
C30_StatusOnlyLeavesPending ==
    [][/\ Len(Proposals(db)) <= Len(Proposals(db'))
       /\ \A i \in 1..Len(Proposals(db)) :
            LET old == Proposals(db)[i]
                new == Proposals(db')[i]
            IN /\ new.id = old.id
               /\ new.circuit_id = old.circuit_id
               /\ new.status # old.status =>
                    old.status = "Pending" /\ new.status \in {"Accepted", "Rejected"}
               /\ old.status \in {"Accepted", "Rejected"} => new = old
       /\ RowsKept(db.proposal_circuit_member, db'.proposal_circuit_member)
       /\ RowsKept(db.proposal_circuit_service, db'.proposal_circuit_service)
       /\ RowsKept(db.proposal_vote_record, db'.proposal_vote_record)]_vars

\* A proposal has been accepted, and an event for its circuit was applied
\* after that.
C30_Witness ==
    /\ last_call.admin_event.type \in {"ProposalVote", "ProposalRejected"}
    /\ \E i \in 1..Len(Proposals(db)) :
        /\ Proposals(db)[i].status = "Accepted"
        /\ Proposals(db)[i].circuit_id = last_call.admin_event.circuit_id

(***************************************************************************)
(* C31: the client thread has left its loop with a non-error result only   *)
(* if the running flag is false; while the flag is true the thread is      *)
(* waiting for a session or driving one, or has left its loop with an      *)
(* error.                                                                  *)
(***************************************************************************)
C31_CleanExitOnlyWhenStopped ==
    /\ (client_pc \in {"exit", "done"} /\ client_result = "Ok") => ~running
    /\ running =>
            \/ client_pc \in {"try_recv", "poll", "block_on", "read",
                              "handle_invalid_messages", "after_block_on"}
            \/ client_pc = "exit" /\ client_result = "Err"

\* The client thread has driven a session and has returned without error.
C31_Witness ==
    /\ client_pc = "done"
    /\ client_result = "Ok"
    /\ client_session = 1
    /\ ~running

(***************************************************************************)
(* C32: a close frame with the unsupported reason is written only to the    *)
(* sink of the session whose own invalid frames caused it: a reconnected    *)
(* session never receives the close frame of an earlier session.           *)
(***************************************************************************)
C32_UnsupportedOnlyToOwnSink ==
    \A s \in 1..MaxSessions :
        \A i \in 1..Len(sink_frames[s]) :
            sink_frames[s][i].code = "Unsupported" => sink_frames[s][i].session = s

\* The close messages this session has enqueued that are still to be seen:
\* those waiting in the queue, the one the connection manager is about to
\* write, and those written to a sink.
CloseMessagesOf(session) ==
    Cardinality({i \in 1..Len(rx_msg_closing) : rx_msg_closing[i].session = session})
        + (IF conn_pc = "send" /\ conn_msg.session = session THEN 1 ELSE 0)
        + Cardinality({<<s, i>> \in (1..MaxSessions) \X (1..MaxSessions) :
                        /\ i <= Len(sink_frames[s])
                        /\ sink_frames[s][i].session = session})

(***************************************************************************)
(* C33: a session enqueues at most one close message on the close-message  *)
(* queue, however many invalid frames it receives past the threshold.      *)
(***************************************************************************)
C33_OneCloseMessagePerSession ==
    \A session \in 1..MaxSessions : CloseMessagesOf(session) <= 1

(***************************************************************************)
(* C34: the queue of connection attempts holds at most one attempt: the    *)
(* connection manager enqueues no attempt while an earlier one waits to be  *)
(* picked up by the client thread.                                         *)
(***************************************************************************)
C34_AtMostOnePendingAttempt == Len(rx_future) <= 1

\* The attempt the connection manager enqueued waits while the client
\* thread still drives the first session.
C34_Witness ==
    /\ rx_future = <<2>>
    /\ client_session = 1
    /\ client_pc = "read"
    /\ conn_pc = "sink_poll"

\* The running flag has been cleared: by shutdown(), by a close frame of the
\* server, or by a thread whose loop ended with an error.
RunningCleared ==
    \/ shutdown_calls > 0
    \/ remote_close
    \/ client_pc = "done" /\ client_result = "Err"
    \/ conn_pc = "done" /\ conn_result = "Err"

(***************************************************************************)
(* C35: the running flag is monotone: once shutdown(), a close frame of    *)
(* the server or the error of a loop has set it to false, it is false in   *)
(* every later state, and it is true in every state before that.           *)
(***************************************************************************)
C35_RunningMonotone == running <=> ~RunningCleared

\* shutdown() was called, both threads have gone through the end of their
\* closures, and the flag is false.
C35_Witness ==
    /\ shutdown_calls = 1
    /\ client_pc = "done"
    /\ conn_pc = "done"
    /\ client_session = 1
    /\ ~running
====
